---- MODULE Spec2Model ----
(***************************************************************************)
(* shipping-api: a relay between a payment processor (Stripe) and a        *)
(* shipping provider (Shippo).  The repository holds four programs with    *)
(* the same HTTP surface:                                                  *)
(*   "server"  src/server.js              REST client, webhook unguarded   *)
(*   "part000" src/unnamed/part_000       REST client, webhook guarded     *)
(*   "sdk"     src/unnamed/part_001:1-109 Shippo SDK client                *)
(*   "zapier"  src/unnamed/part_001:111-264 Zapier flow                    *)
(* A behaviour is one deployed program serving a bounded number of         *)
(* requests; every handler is cut at its awaits.                           *)
(***************************************************************************)
EXTENDS Integers, Sequences, FiniteSets, TLC

VARIABLES variant, reqs, crashed

vars == <<variant, reqs, crashed>>

\* ------------------------------------------------------------------ bounds
MaxRequests == 2

\* ---------------------------------------------------------------- programs
Variants == {"server", "part000", "sdk", "zapier"}

\* ------------------------------------------------- the provider's data set
\* Orders and shipments held by the shipping provider (spec section 8 uses
\* RATE_A at "12.50"); amounts are decimal strings, as the provider sends.
Undefined == "undefined"

\* A decimal string is a sequence of characters; this one stands for a field
\* that holds no string at all.
UndefinedAmount == <<"undefined">>

RATE_A ==
    [object_id |-> "RATE_A", provider |-> "UPS", servicelevel |-> [name |-> "Ground"],
     amount |-> <<"1", "2", ".", "5", "0">>, estimated_days |-> 3]
RATE_B ==
    [object_id |-> "RATE_B", provider |-> "USPS", servicelevel |-> [name |-> "Priority"],
     amount |-> <<"7", ".", "9", "9">>, estimated_days |-> 2]

ProviderOrders ==
    [o \in {"ORDER_1", "ORDER_EMPTY", "ORDER_NORATES"} |->
        CASE o = "ORDER_1"       -> <<"SHIP_1">>
          [] o = "ORDER_EMPTY"   -> <<>>
          [] o = "ORDER_NORATES" -> <<"SHIP_0">>]

ProviderShipments ==
    [s \in {"SHIP_1", "SHIP_0"} |->
        CASE s = "SHIP_1" -> <<RATE_A, RATE_B>>
          [] s = "SHIP_0" -> <<>>]

\* ------------------------------------------------------------ JS numbers
\* A number is NaN or a decimal fraction num/den with den a power of ten.
NaN == [nan |-> TRUE, num |-> 0, den |-> 1]

DigitVal(c) ==
    CASE c = "0" -> 0 [] c = "1" -> 1 [] c = "2" -> 2 [] c = "3" -> 3
      [] c = "4" -> 4 [] c = "5" -> 5 [] c = "6" -> 6 [] c = "7" -> 7
      [] c = "8" -> 8 [] c = "9" -> 9 [] OTHER -> -1

RECURSIVE ParseDigits(_, _, _, _)
\* Reads s from position i on; seen is TRUE after the decimal point.
ParseDigits(s, i, acc, seen) ==
    IF i > Len(s) THEN acc
    ELSE IF s[i] = "." THEN
        IF seen THEN NaN ELSE ParseDigits(s, i + 1, acc, TRUE)
    ELSE IF DigitVal(s[i]) < 0 THEN NaN
    ELSE ParseDigits(s, i + 1,
            [nan |-> FALSE,
             num |-> acc.num * 10 + DigitVal(s[i]),
             den |-> IF seen THEN acc.den * 10 ELSE acc.den],
            seen)

\* Number(x) and the implicit ToNumber of `x * 100` for a decimal string.
JsNumber(x) ==
    IF x = UndefinedAmount THEN NaN
    ELSE IF Len(x) = 0 THEN [nan |-> FALSE, num |-> 0, den |-> 1]
    ELSE ParseDigits(x, 1, [nan |-> FALSE, num |-> 0, den |-> 1], FALSE)

JsTimes100(n) ==
    IF n.nan THEN NaN ELSE [nan |-> FALSE, num |-> n.num * 100, den |-> n.den]

\* Math.round: nearest integer, halves toward +infinity; NaN stays NaN.
MathRound(n) ==
    IF n.nan THEN NaN
    ELSE [nan |-> FALSE, num |-> (2 * n.num + n.den) \div (2 * n.den), den |-> 1]

\* ------------------------------------------------------------- responses
Response(status, body) == [status |-> status, body |-> body]

Received == [received |-> TRUE]

\* ------------------------------------------------- payment processor events
CheckoutCompleted == "checkout.session.completed"

\* Events the processor signs; metadata is what the checkout session carried.
StripeEvents ==
    [e \in {"evt_paid_a", "evt_paid_b", "evt_other"} |->
        CASE e = "evt_paid_a" ->
                [type |-> CheckoutCompleted, metadata |-> [rateId |-> "RATE_A"]]
          [] e = "evt_paid_b" ->
                [type |-> CheckoutCompleted, metadata |-> [rateId |-> "RATE_B"]]
          [] e = "evt_other" ->
                [type |-> "payment_intent.succeeded",
                 metadata |-> [rateId |-> "RATE_A"]]]

\* Inbound POST /webhook/stripe requests: the content type, the state of the
\* stripe-signature header, whether the bytes are well-formed JSON, and the
\* event the bytes encode.
Deliveries ==
    { [contentType |-> "application/json", sig |-> "valid",
       wellFormed |-> TRUE, event |-> e] : e \in DOMAIN StripeEvents }
    \cup
    { [contentType |-> "application/json", sig |-> s,
       wellFormed |-> TRUE, event |-> "evt_paid_a"] : s \in {"invalid", "missing"} }
    \cup
    { [contentType |-> "application/json", sig |-> "valid",
       wellFormed |-> FALSE, event |-> "evt_paid_a"],
      [contentType |-> "text/plain", sig |-> "valid",
       wellFormed |-> TRUE, event |-> "evt_paid_a"] }

\* --------------------------------------------------------- body middleware
\* What req.body is when the webhook route's handler runs.  "buffer" is the
\* raw bytes, "object" a parsed JSON value, "none" no body (no parser took
\* the content type), "parse-error" the JSON parser's own 400.
\* express.raw({type: "application/json"}) leaves an already parsed body alone.
WebhookBody(v, d) ==
    IF v = "zapier"
    THEN IF d.contentType = "application/json"
         THEN IF d.wellFormed THEN "object" ELSE "parse-error"
         ELSE "none"
    ELSE IF d.contentType = "application/json" THEN "buffer" ELSE "none"

\* constructEventOk without the signature comparison.
constructEventOk_NoSigCheck(body, d) ==
    /\ body = "buffer"
    /\ d.wellFormed

\* stripe.webhooks.constructEvent(req.body, sig, secret): returns the event
\* only for raw bytes whose signature matches and that parse as JSON.
constructEventOk(body, d) ==
    /\ body = "buffer"
    /\ d.sig = "valid"
    /\ d.wellFormed

\* -------------------------------------------------------- upstream outcomes
\* How an outbound HTTP call ends: the service answers from its data, it
\* answers 503, or the connection fails.
HttpOutcomes == {"reply", "unavailable", "network"}

\* The Error thrown for a non-success status.  server and part000 build
\* `Shippo error ${res.status}: ${text}`, zapier JSON.stringify(data), which
\* holds the body only; status 0 stands for a message without a status code.
ShippoError(v, status) ==
    [source |-> IF v = "zapier" THEN "json"
                ELSE IF v = "sdk" THEN "sdk" ELSE "Shippo error",
     status |-> IF v = "zapier" THEN 0 ELSE status,
     text |-> IF status = 404 THEN "Not Found" ELSE "Service Unavailable"]

\* The rejection of fetch itself.
FetchRejected == [source |-> "fetch", status |-> 0, text |-> "fetch failed"]

NoError == [source |-> "none", status |-> 200, text |-> ""]

\* shippoFetch / shippoClient.*.retrieve for a GET of table[id].
ShippoGet(v, table, id, up) ==
    LET status == IF up = "unavailable" THEN 503
                  ELSE IF id \in DOMAIN table THEN 200 ELSE 404
    IN  IF up = "network"
        THEN [ok |-> FALSE, data |-> <<>>, message |-> FetchRejected]
        ELSE IF status = 200
        THEN [ok |-> TRUE, data |-> table[id], message |-> NoError]
        ELSE [ok |-> FALSE, data |-> <<>>, message |-> ShippoError(v, status)]

\* shippoFetch("/transactions", {method: "POST"}) / transaction.create: the
\* error it throws when the purchase does not go through.
LabelError(v, up) ==
    IF up = "network" THEN FetchRejected ELSE ShippoError(v, 503)

\* order.shipments[0]
FirstShipment(shipments) ==
    IF Len(shipments) = 0 THEN Undefined ELSE shipments[1]

\* ---------------------------------------------------------- outbound calls
Call(api, arg) == [api |-> api, arg |-> arg]

\* LabelPayload asking for queued label generation.
LabelPayload_Async(rateId) ==
    [rate |-> rateId, label_file_type |-> "PDF", async |-> TRUE]

\* The label-purchase payload sent to POST /transactions (transaction.create).
LabelPayload(rateId) ==
    [rate |-> rateId, label_file_type |-> "PDF", async |-> FALSE]

\* IsCheckoutCompleted with the comparison dropped: every verified event buys.
IsCheckoutCompleted_AnyType(type) == type = type

\* event.type === "checkout.session.completed"
IsCheckoutCompleted(type) == type = CheckoutCompleted

\* ------------------------------------------------------------- requests
NewRequest(route, input) ==
    [route |-> route, input |-> input, pc |-> "start",
     responses |-> <<>>, calls |-> <<>>, created |-> <<>>,
     verified |-> FALSE, payloadRead |-> FALSE, escaped |-> FALSE,
     upFailed |-> FALSE, caught |-> NoError]

Respond(r, status, body) ==
    [r EXCEPT !.responses = Append(@, Response(status, body)), !.pc = "done"]

\* History: some outbound call of the request ended in a 503 or a network error.
Settled(r, up) == [r EXCEPT !.upFailed = @ \/ up # "reply"]

\* The error a catch block (or the runtime) receives.
Caught(r, message) == [r EXCEPT !.caught = message]

Issue(r, api, arg, pc) ==
    [r EXCEPT !.calls = Append(@, Call(api, arg)), !.pc = pc]

\* What becomes of a rejection no handler catches: Express 5 hands it to the
\* default error handler (500); Express 4 leaves the request unanswered, and
\* the runtime either only warns or ends the process.
UnhandledOutcomes == {"error-handler", "hang", "crash"}

Escape(r, outcome) ==
    IF outcome = "error-handler"
    THEN [Respond(r, 500, [text |-> "Internal Server Error"]) EXCEPT !.escaped = TRUE]
    ELSE [r EXCEPT !.escaped = TRUE, !.pc = "done"]

WebhookErrorText(v) == IF v = "zapier" THEN "Webhook error" ELSE "Webhook Error"

\* ------------------------------------------------- POST /webhook/stripe
\* WebhookStart with a record of processed events: an event already verified
\* in an earlier delivery is acknowledged without a purchase.
WebhookStart_Dedup(v, d) ==
    LET r == NewRequest("webhook", d)
        body == WebhookBody(v, d)
        event == StripeEvents[d.event]
        seen == \E j \in DOMAIN reqs :
                    /\ reqs[j].route = "webhook"
                    /\ reqs[j].verified
                    /\ reqs[j].input.event = d.event
    IN  IF body = "parse-error"
        THEN Respond(r, 400, [text |-> "Bad Request"])
        ELSE IF ~constructEventOk(body, d)
        THEN Respond(r, 400, [text |-> WebhookErrorText(v)])
        ELSE LET r1 == [r EXCEPT !.verified = TRUE, !.payloadRead = TRUE]
             IN  IF IsCheckoutCompleted(event.type) /\ ~seen
                 THEN Issue(r1, "shippo.transaction",
                            LabelPayload(event.metadata.rateId), "awaitLabel")
                 ELSE Respond(r1, 200, Received)

\* WebhookStart with the purchase not awaited: the acknowledgement goes out
\* while the call is outstanding.
WebhookStart_AckFirst(v, d) ==
    LET r == NewRequest("webhook", d)
        body == WebhookBody(v, d)
        event == StripeEvents[d.event]
    IN  IF body = "parse-error"
        THEN Respond(r, 400, [text |-> "Bad Request"])
        ELSE IF ~constructEventOk(body, d)
        THEN Respond(r, 400, [text |-> WebhookErrorText(v)])
        ELSE LET r1 == [r EXCEPT !.verified = TRUE, !.payloadRead = TRUE]
             IN  IF IsCheckoutCompleted(event.type)
                 THEN [Issue(r1, "shippo.transaction",
                             LabelPayload(event.metadata.rateId), "awaitLabel")
                         EXCEPT !.responses = Append(@, Response(200, Received))]
                 ELSE Respond(r1, 200, Received)

\* The handler up to its first await.
WebhookStart(v, d) ==
    LET r == NewRequest("webhook", d)
        body == WebhookBody(v, d)
        event == StripeEvents[d.event]
    IN  IF body = "parse-error"
        THEN Respond(r, 400, [text |-> "Bad Request"])
        ELSE IF ~constructEventOk(body, d)
        THEN Respond(r, 400, [text |-> WebhookErrorText(v)])
        ELSE LET r1 == [r EXCEPT !.verified = TRUE, !.payloadRead = TRUE]
             IN  IF IsCheckoutCompleted(event.type)
                 THEN Issue(r1, "shippo.transaction",
                            LabelPayload(event.metadata.rateId), "awaitLabel")
                 ELSE Respond(r1, 200, Received)

WebhookArrive(d) ==
    /\ ~crashed
    /\ Len(reqs) < MaxRequests
    /\ reqs' = Append(reqs, WebhookStart(variant, d))
    /\ UNCHANGED <<variant, crashed>>

\* The label-purchase call settles; any failure is a rejection of the await.
LabelFailed(v, r, outcome) ==
    CASE v = "part000" -> Respond(r, 200, Received)
      [] v = "zapier"  -> Respond(r, 400, [text |-> WebhookErrorText(v)])
      [] OTHER         -> Escape(r, outcome)

LabelSettle(i, up, outcome) ==
    /\ ~crashed
    /\ i \in 1..Len(reqs)
    /\ reqs[i].route = "webhook"
    /\ reqs[i].pc = "awaitLabel"
    /\ reqs' = [reqs EXCEPT ![i] =
                    Settled(IF up = "reply" THEN Respond(@, 200, Received)
                            ELSE LabelFailed(variant, Caught(@, LabelError(variant, up)),
                                             outcome), up)]
    /\ crashed' = (reqs'[i].escaped /\ outcome = "crash")
    /\ UNCHANGED variant

\* ------------------------------------------- GET /api/shipping/:reference
\* Inbound references: order tokens and shipment ids known to the provider;
\* a shipment id is no order token and the other way round.
References == {"ORDER_1", "ORDER_EMPTY", "ORDER_NORATES", "SHIP_1", "SHIP_0"}

NormalizeRate(r) ==
    [rate_id |-> r.object_id, carrier |-> r.provider,
     service |-> r.servicelevel.name, amount |-> JsNumber(r.amount),
     eta |-> r.estimated_days]

RatesBody(v, rates) ==
    LET list == [k \in 1..Len(rates) |-> NormalizeRate(rates[k])]
    IN  IF v = "zapier" THEN [rates |-> list]
        ELSE [customer |-> "to_address", rates |-> list]

RatesFailBody(v, message) ==
    CASE v = "part000" -> [error |-> "Failed to load shipping rates", details |-> message]
      [] v = "zapier"  -> [error |-> message]
      [] OTHER         -> [error |-> "Failed to load shipping"]

NoShipmentResponse(v) ==
    IF v = "server" THEN Response(404, [error |-> "No shipment found"])
    ELSE Response(400, [error |-> "Order has no shipments. Ensure parcels were added."])

\* The handler up to its first await.
RatesStart(v, ref) ==
    LET r == NewRequest("rates", ref)
    IN  IF v = "zapier" THEN Issue(r, "shippo.shipment", ref, "awaitShipment")
        ELSE Issue(r, "shippo.order", ref, "awaitOrder")

RatesArrive(ref) ==
    /\ ~crashed
    /\ Len(reqs) < MaxRequests
    /\ reqs' = Append(reqs, RatesStart(variant, ref))
    /\ UNCHANGED <<variant, crashed>>

\* From the order fetch settling to the next await or the response.
RatesAfterOrder(v, r, up) ==
    LET res == ShippoGet(v, ProviderOrders, r.input, up)
    IN  IF ~res.ok THEN Respond(Caught(r, res.message), 500, RatesFailBody(v, res.message))
        ELSE IF v # "sdk" /\ Len(res.data) = 0
        THEN Respond(r, NoShipmentResponse(v).status, NoShipmentResponse(v).body)
        ELSE Issue(r, "shippo.shipment", FirstShipment(res.data), "awaitShipment")

RatesOrderSettle(i, up) ==
    /\ ~crashed
    /\ i \in 1..Len(reqs)
    /\ reqs[i].route = "rates"
    /\ reqs[i].pc = "awaitOrder"
    /\ reqs' = [reqs EXCEPT ![i] = Settled(RatesAfterOrder(variant, @, up), up)]
    /\ UNCHANGED <<variant, crashed>>

\* RatesAfterShipment buying the first rate it lists.
RatesAfterShipment_Buys(v, r, up) ==
    LET res == ShippoGet(v, ProviderShipments, r.calls[Len(r.calls)].arg, up)
    IN  IF ~res.ok THEN Respond(Caught(r, res.message), 500, RatesFailBody(v, res.message))
        ELSE [Respond(r, 200, RatesBody(v, res.data))
                EXCEPT !.calls = Append(@, Call("shippo.transaction", LabelPayload("RATE_A")))]

\* From the shipment fetch settling to the response.
RatesAfterShipment(v, r, up) ==
    LET res == ShippoGet(v, ProviderShipments, r.calls[Len(r.calls)].arg, up)
    IN  IF ~res.ok THEN Respond(Caught(r, res.message), 500, RatesFailBody(v, res.message))
        ELSE Respond(r, 200, RatesBody(v, res.data))

RatesShipmentSettle(i, up) ==
    /\ ~crashed
    /\ i \in 1..Len(reqs)
    /\ reqs[i].route = "rates"
    /\ reqs[i].pc = "awaitShipment"
    /\ reqs' = [reqs EXCEPT ![i] = Settled(RatesAfterShipment(variant, @, up), up)]
    /\ UNCHANGED <<variant, crashed>>

\* ---------------------------------------------------- POST /api/checkout
\* Request bodies {orderToken | sessionId, rateId, amount?}; a field the
\* client left out is Undefined.  The reference field is read as orderToken.
Body(ref, rateId, amount) == [orderToken |-> ref, rateId |-> rateId, amount |-> amount]

CheckoutBodies ==
    { Body("ORDER_1", "RATE_A", UndefinedAmount),
      Body("ORDER_1", "RATE_A", <<"0", ".", "0", "1">>),
      Body("ORDER_1", "RATE_B", UndefinedAmount),
      Body("ORDER_1", "RATE_X", UndefinedAmount),
      Body("ORDER_1", Undefined, UndefinedAmount),
      Body(Undefined, "RATE_A", UndefinedAmount),
      Body("ORDER_EMPTY", "RATE_A", UndefinedAmount),
      Body("ORDER_NORATES", "RATE_A", UndefinedAmount),
      Body("SHIP_1", "RATE_A", <<"1", "2", ".", "5", "0">>),
      Body("SHIP_1", "RATE_A", <<"0", ".", "0", "1">>),
      Body("SHIP_1", "RATE_X", <<"1", "2", ".", "5", "0">>),
      Body("SHIP_0", "RATE_A", <<"1", "2", ".", "5", "0">>) }

\* shipment.rates.find(r => r.object_id === rateId): whether it finds a rate,
\* and the first one it finds.
HasRate(rates, rateId) == \E k \in 1..Len(rates) : rates[k].object_id = rateId

FindRate(rates, rateId) ==
    rates[CHOOSE k \in 1..Len(rates) :
            /\ rates[k].object_id = rateId
            /\ \A j \in 1..(k - 1) : rates[j].object_id # rateId]

\* Math.round(rate.amount * 100) and Math.round(Number(rate.amount) * 100)
UnitAmount(amount) == MathRound(JsTimes100(JsNumber(amount)))

SessionMetadata(v, body) ==
    IF v = "sdk" THEN [orderToken |-> body.orderToken, rateId |-> body.rateId]
    ELSE [rateId |-> body.rateId]

\* The argument of stripe.checkout.sessions.create.
SessionParams(v, body, amount) ==
    [mode |-> "payment",
     line_items |-> << [currency |-> "usd", unit_amount |-> UnitAmount(amount),
                        quantity |-> 1] >>,
     metadata |-> SessionMetadata(v, body)]

CheckoutFailBody(v, message) ==
    CASE v = "part000" -> [error |-> "Checkout failed", details |-> message]
      [] v = "zapier"  -> [error |-> message]
      [] OTHER         -> [error |-> "Checkout failed"]

TypeErrorMessage == [source |-> "TypeError", status |-> 0, text |-> "Cannot read properties of undefined"]

\* The handler up to its first await.
CheckoutStart(v, body) ==
    LET r == NewRequest("checkout", body)
    IN  CASE v = "zapier" ->
                Issue(r, "stripe.session", SessionParams(v, body, body.amount), "awaitSession")
          [] v = "part000" /\ (body.orderToken = Undefined \/ body.rateId = Undefined) ->
                Respond(r, 400, [error |-> "Missing orderToken or rateId"])
          [] OTHER ->
                Issue(r, "shippo.order", body.orderToken, "awaitOrder")

CheckoutArrive(body) ==
    /\ ~crashed
    /\ Len(reqs) < MaxRequests
    /\ reqs' = Append(reqs, CheckoutStart(variant, body))
    /\ UNCHANGED <<variant, crashed>>

\* From the order fetch settling to the next await or the response.
CheckoutAfterOrder(v, r, up) ==
    LET res == ShippoGet(v, ProviderOrders, r.input.orderToken, up)
    IN  IF ~res.ok THEN Respond(Caught(r, res.message), 500, CheckoutFailBody(v, res.message))
        ELSE Issue(r, "shippo.shipment", FirstShipment(res.data), "awaitShipment")

CheckoutOrderSettle(i, up) ==
    /\ ~crashed
    /\ i \in 1..Len(reqs)
    /\ reqs[i].route = "checkout"
    /\ reqs[i].pc = "awaitOrder"
    /\ reqs' = [reqs EXCEPT ![i] = Settled(CheckoutAfterOrder(variant, @, up), up)]
    /\ UNCHANGED <<variant, crashed>>

\* The rate lookup's miss: answered by server and part000, a TypeError on
\* rate.provider in sdk.
RateMissing(v, r) ==
    CASE v = "server"  -> Respond(r, 400, [error |-> "Invalid rate"])
      [] v = "part000" -> Respond(r, 400, [error |-> "Invalid rate selected"])
      [] OTHER         -> Respond(Caught(r, TypeErrorMessage), 500,
                                  CheckoutFailBody(v, TypeErrorMessage))

\* From the shipment fetch settling to the next await or the response.
CheckoutAfterShipment(v, r, up) ==
    LET res == ShippoGet(v, ProviderShipments, r.calls[Len(r.calls)].arg, up)
        rate == FindRate(res.data, r.input.rateId)
    IN  IF ~res.ok THEN Respond(Caught(r, res.message), 500, CheckoutFailBody(v, res.message))
        ELSE IF ~HasRate(res.data, r.input.rateId) THEN RateMissing(v, r)
        ELSE Issue(r, "stripe.session", SessionParams(v, r.input, rate.amount), "awaitSession")

CheckoutShipmentSettle(i, up) ==
    /\ ~crashed
    /\ i \in 1..Len(reqs)
    /\ reqs[i].route = "checkout"
    /\ reqs[i].pc = "awaitShipment"
    /\ reqs' = [reqs EXCEPT ![i] = Settled(CheckoutAfterShipment(variant, @, up), up)]
    /\ UNCHANGED <<variant, crashed>>

\* The processor refuses a unit_amount that is no integer (NaN).
StripeAccepts(params) == ~params.line_items[1].unit_amount.nan

StripeMessage == [source |-> "stripe", status |-> 0, text |-> "session not created"]

\* From sessions.create settling to the response.
CheckoutAfterSession(v, r, up) ==
    LET params == r.calls[Len(r.calls)].arg
    IN  IF up = "reply" /\ StripeAccepts(params)
        THEN [Respond(r, 200, [url |-> "https://checkout.stripe.com/session"])
                EXCEPT !.created = Append(@, params)]
        ELSE Respond(Caught(r, StripeMessage), 500, CheckoutFailBody(v, StripeMessage))

CheckoutSessionSettle(i, up) ==
    /\ ~crashed
    /\ i \in 1..Len(reqs)
    /\ reqs[i].route = "checkout"
    /\ reqs[i].pc = "awaitSession"
    /\ reqs' = [reqs EXCEPT ![i] = Settled(CheckoutAfterSession(variant, @, up), up)]
    /\ UNCHANGED <<variant, crashed>>

Init ==
    /\ variant \in Variants
    /\ reqs = <<>>
    /\ crashed = FALSE

Next ==
    \/ \E d \in Deliveries : WebhookArrive(d)
    \/ \E i \in 1..MaxRequests, up \in HttpOutcomes, outcome \in UnhandledOutcomes :
            LabelSettle(i, up, outcome)
    \/ \E ref \in References : RatesArrive(ref)
    \/ \E i \in 1..MaxRequests, up \in HttpOutcomes : RatesOrderSettle(i, up)
    \/ \E i \in 1..MaxRequests, up \in HttpOutcomes : RatesShipmentSettle(i, up)
    \/ \E body \in CheckoutBodies : CheckoutArrive(body)
    \/ \E i \in 1..MaxRequests, up \in HttpOutcomes : CheckoutOrderSettle(i, up)
    \/ \E i \in 1..MaxRequests, up \in HttpOutcomes : CheckoutShipmentSettle(i, up)
    \/ \E i \in 1..MaxRequests, up \in HttpOutcomes : CheckoutSessionSettle(i, up)

Spec == Init /\ [][Next]_vars

\* ===================================================================== claims
Indices == DOMAIN reqs

IsLabelCall(c) == c.api = "shippo.transaction"

IsSessionCall(c) == c.api = "stripe.session"

LabelCalls(r) == SelectSeq(r.calls, IsLabelCall)

SessionCalls(r) == SelectSeq(r.calls, IsSessionCall)

\* The request's signature check cannot pass: bad or absent header, or bytes
\* that are no JSON.
SignatureFails(d) == d.sig \in {"invalid", "missing"} \/ ~d.wellFormed

CompletedDelivery(r) ==
    /\ r.route = "webhook"
    /\ r.verified
    /\ StripeEvents[r.input.event].type = "checkout.session.completed"

OtherDelivery(r) ==
    /\ r.route = "webhook"
    /\ r.verified
    /\ StripeEvents[r.input.event].type # "checkout.session.completed"

\* C1: a webhook request whose signature verification fails is answered 400,
\* issues no label-purchase call, and no field of its payload has been read;
\* a payload is read only after verification.
C1_UnverifiedRejected ==
    \A i \in Indices :
        LET r == reqs[i]
        IN  r.route = "webhook" =>
              /\ (SignatureFails(r.input) \/ ~r.verified) =>
                    /\ Len(r.responses) = 1
                    /\ r.responses[1].status = 400
                    /\ LabelCalls(r) = <<>>
                    /\ ~r.payloadRead
              /\ r.payloadRead => r.verified

C1_Witness ==
    \E i \in Indices :
        /\ reqs[i].route = "webhook"
        /\ reqs[i].input.sig = "invalid"
        /\ reqs[i].pc = "done"
        /\ reqs[i].responses[1].status = 400

\* C2: once verification has passed for a checkout.session.completed event,
\* the finished handler has answered 200 {received: true}, whether the label
\* purchase succeeded or failed.
C2_AckDespiteLabelFailure ==
    \A i \in Indices :
        (CompletedDelivery(reqs[i]) /\ reqs[i].pc = "done") =>
            reqs[i].responses = << Response(200, [received |-> TRUE]) >>

\* C3: a verified checkout.session.completed delivery issues exactly one
\* label-purchase call, with payload {rate: R, label_file_type: "PDF",
\* async: false}, R being the rateId of the event's session metadata.
C3_OneLabelCallWithRate ==
    \A i \in Indices :
        CompletedDelivery(reqs[i]) =>
            LabelCalls(reqs[i]) =
                << [api |-> "shippo.transaction",
                    arg |-> [rate |-> StripeEvents[reqs[i].input.event].metadata.rateId,
                             label_file_type |-> "PDF", async |-> FALSE]] >>

C3_Witness ==
    \E i \in Indices :
        /\ CompletedDelivery(reqs[i])
        /\ reqs[i].input.event = "evt_paid_b"
        /\ reqs[i].pc = "done"
        /\ Len(LabelCalls(reqs[i])) = 1
        /\ LabelCalls(reqs[i])[1].arg.rate = "RATE_B"

\* C4: a verified event of any other kind is answered 200 {received: true}
\* and issues no label-purchase call.
C4_OtherKindsAcknowledged ==
    \A i \in Indices :
        OtherDelivery(reqs[i]) =>
            /\ reqs[i].responses = << Response(200, [received |-> TRUE]) >>
            /\ LabelCalls(reqs[i]) = <<>>

C4_Witness ==
    \E i \in Indices :
        /\ OtherDelivery(reqs[i])
        /\ reqs[i].pc = "done"
        /\ reqs[i].responses[1].status = 200

\* The shipment a reference names at the provider: the first shipment of the
\* order in the order-token programs, the shipment itself in zapier.
ShipmentOf(v, ref) ==
    IF v = "zapier" THEN ref
    ELSE IF ref \in DOMAIN ProviderOrders /\ Len(ProviderOrders[ref]) > 0
         THEN ProviderOrders[ref][1]
         ELSE "none"

HasShipment(v, ref) == ShipmentOf(v, ref) \in DOMAIN ProviderShipments

RateIdsOf(v, ref) ==
    { ProviderShipments[ShipmentOf(v, ref)][k].object_id :
        k \in 1..Len(ProviderShipments[ShipmentOf(v, ref)]) }

\* The provider's price list in cents, written out by hand.
ProviderCents(rateId) ==
    CASE rateId = "RATE_A" -> 1250
      [] rateId = "RATE_B" -> 799

\* A checkout request naming a rate the shipment does not offer.
UnknownRateCheckout(r) ==
    /\ r.route = "checkout"
    /\ HasShipment(variant, r.input.orderToken)
    /\ r.input.rateId \notin RateIdsOf(variant, r.input.orderToken)

\* A checkout request naming a rate the shipment offers.
KnownRateCheckout(r) ==
    /\ r.route = "checkout"
    /\ HasShipment(variant, r.input.orderToken)
    /\ r.input.rateId \in RateIdsOf(variant, r.input.orderToken)

\* C5: a checkout request whose rateId is not in the shipment's rate set is
\* answered 400 (when no provider call failed on the way) and
\* sessions.create is never called for it.
C5_UnknownRateRejected ==
    \A i \in Indices :
        UnknownRateCheckout(reqs[i]) =>
            /\ SessionCalls(reqs[i]) = <<>>
            /\ reqs[i].created = <<>>
            /\ (reqs[i].pc = "done" /\ ~reqs[i].upFailed) =>
                  /\ Len(reqs[i].responses) = 1
                  /\ reqs[i].responses[1].status = 400

\* C6: two checkout requests that agree on the reference and the rateId
\* create sessions with the same unit amount, whatever else their bodies hold.
C6_AmountIndependentOfClient ==
    \A i, j \in Indices :
        ( /\ reqs[i].route = "checkout"
          /\ reqs[j].route = "checkout"
          /\ reqs[i].input.orderToken = reqs[j].input.orderToken
          /\ reqs[i].input.rateId = reqs[j].input.rateId
          /\ reqs[i].created # <<>>
          /\ reqs[j].created # <<>> ) =>
            reqs[i].created[1].line_items[1].unit_amount
                = reqs[j].created[1].line_items[1].unit_amount

\* C7: a checkout request whose rateId is in the shipment's rate set, and
\* whose outbound calls all succeed, is answered with the session url; the
\* session it creates has one line item of quantity 1 priced at the
\* provider's amount in cents, and its metadata carries the rateId.
C7_SessionPricedFromProvider ==
    \A i \in Indices :
        LET r == reqs[i]
        IN  KnownRateCheckout(r) =>
              /\ Len(r.created) <= 1
              /\ r.created # <<>> =>
                    /\ Len(r.created[1].line_items) = 1
                    /\ r.created[1].line_items[1].quantity = 1
                    /\ r.created[1].line_items[1].unit_amount
                          = [nan |-> FALSE, num |-> ProviderCents(r.input.rateId), den |-> 1]
                    /\ r.created[1].metadata.rateId = r.input.rateId
              /\ (r.pc = "done" /\ ~r.upFailed) =>
                    /\ Len(r.responses) = 1
                    /\ r.responses[1].status = 200
                    /\ "url" \in DOMAIN r.responses[1].body
                    /\ Len(r.created) = 1

\* A rate inquiry whose reference names an order without shipments or a
\* shipment without rates.
EmptyInquiry(r) ==
    /\ r.route = "rates"
    /\ \/ variant # "zapier" /\ r.input \in DOMAIN ProviderOrders
                             /\ Len(ProviderOrders[r.input]) = 0
       \/ HasShipment(variant, r.input)
            /\ Len(ProviderShipments[ShipmentOf(variant, r.input)]) = 0

\* C8: a rate inquiry for an order without shipments, or for a shipment
\* without rates, is answered with a 4xx status (when no provider call
\* failed on the way), never 200 with an empty rates list.
C8_EmptyInquiryIsClientError ==
    \A i \in Indices :
        (EmptyInquiry(reqs[i]) /\ reqs[i].pc = "done" /\ ~reqs[i].upFailed) =>
            /\ Len(reqs[i].responses) = 1
            /\ reqs[i].responses[1].status \in 400..499

\* C9: a handler that has finished has sent exactly one response, and no
\* failure left it as an unhandled rejection.
C9_OneResponsePerRequest ==
    \A i \in Indices :
        reqs[i].pc = "done" =>
            /\ Len(reqs[i].responses) = 1
            /\ ~reqs[i].escaped

CompletedEvents ==
    { e \in DOMAIN StripeEvents : StripeEvents[e].type = "checkout.session.completed" }

DeliveriesOf(e) ==
    { i \in Indices : CompletedDelivery(reqs[i]) /\ reqs[i].input.event = e }

\* C10: over the verified deliveries of one completed payment, at most one
\* label-purchase call is issued, and once all of them are finished one
\* purchase has succeeded.
C10_ExactlyOncePerPayment ==
    \A e \in CompletedEvents :
        DeliveriesOf(e) # {} =>
            /\ Cardinality({ i \in DeliveriesOf(e) : LabelCalls(reqs[i]) # <<>> }) <= 1
            /\ (\A i \in DeliveriesOf(e) : reqs[i].pc = "done") =>
                  \E i \in DeliveriesOf(e) :
                      LabelCalls(reqs[i]) # <<>> /\ ~reqs[i].upFailed

\* The upstream text a client can read in an error envelope: the details
\* field, or in zapier the error field itself, which is err.message.
EnvelopeDiagnostic(v, body) ==
    IF "details" \in DOMAIN body THEN body.details
    ELSE IF v = "zapier" /\ "error" \in DOMAIN body THEN body.error
    ELSE NoError

\* C11: a rate inquiry one of whose provider fetches failed is answered 500,
\* its error envelope carries the upstream failure message, and the response
\* holds no rates.
C11_FetchFailureReported ==
    \A i \in Indices :
        LET r == reqs[i]
        IN  (r.route = "rates" /\ r.pc = "done"
                /\ (r.upFailed \/ r.caught.source # "none")) =>
              /\ Len(r.responses) = 1
              /\ r.responses[1].status = 500
              /\ "rates" \notin DOMAIN r.responses[1].body
              /\ EnvelopeDiagnostic(variant, r.responses[1].body) = r.caught

\* C12: a checkout request missing the reference or the rateId is answered
\* 400 with a JSON error envelope, and no outbound call is made for it.
C12_MissingFieldRejected ==
    \A i \in Indices :
        LET r == reqs[i]
        IN  (r.route = "checkout"
                /\ (r.input.orderToken = "undefined" \/ r.input.rateId = "undefined")) =>
              /\ r.calls = <<>>
              /\ Len(r.responses) = 1
              /\ r.responses[1].status = 400
              /\ "error" \in DOMAIN r.responses[1].body

\* The label-purchase calls issued by webhook requests carrying event e.
PurchaseCalls(e) ==
    UNION { { <<i, k>> : k \in 1..Len(LabelCalls(reqs[i])) } :
              i \in { j \in Indices : reqs[j].route = "webhook" /\ reqs[j].input.event = e } }

\* C13: k verified deliveries of the same checkout.session.completed event,
\* finished or still in flight side by side, have issued k label-purchase
\* calls, all for the event's rateId.
C13_RedeliveryBuysAgain ==
    \A e \in CompletedEvents :
        /\ Cardinality(PurchaseCalls(e)) = Cardinality(DeliveriesOf(e))
        /\ \A c \in PurchaseCalls(e) :
              LabelCalls(reqs[c[1]])[c[2]].arg.rate = StripeEvents[e].metadata.rateId

C13_Witness ==
    /\ Cardinality(DeliveriesOf("evt_paid_a")) = 2
    /\ Cardinality(PurchaseCalls("evt_paid_a")) = 2
    /\ \E i \in DeliveriesOf("evt_paid_a") : reqs[i].pc = "awaitLabel"

\* A delivery the processor signed: JSON content type, matching signature,
\* well-formed bytes.
CorrectlySigned(d) ==
    /\ d.contentType = "application/json"
    /\ d.sig = "valid"
    /\ d.wellFormed

\* C14: a correctly signed delivery reaches constructEvent as raw bytes and
\* passes verification; it is never rejected.
C14_RawBodyReachesVerification ==
    \A i \in Indices :
        (reqs[i].route = "webhook" /\ CorrectlySigned(reqs[i].input)) =>
            /\ WebhookBody(variant, reqs[i].input) = "buffer"
            /\ reqs[i].verified

\* A checkout request whose reference names an order without shipments or a
\* shipment without rates.
EmptyCheckout(r) ==
    /\ r.route = "checkout"
    /\ \/ variant # "zapier" /\ r.input.orderToken \in DOMAIN ProviderOrders
                             /\ Len(ProviderOrders[r.input.orderToken]) = 0
       \/ HasShipment(variant, r.input.orderToken)
            /\ Len(ProviderShipments[ShipmentOf(variant, r.input.orderToken)]) = 0

\* C15: a checkout request for an order without shipments, or a shipment
\* without rates, creates no payment session and is answered with a 4xx
\* status (when no provider call failed on the way), not 500.
C15_EmptyCheckoutIsClientError ==
    \A i \in Indices :
        EmptyCheckout(reqs[i]) =>
            /\ reqs[i].created = <<>>
            /\ (reqs[i].pc = "done" /\ ~reqs[i].upFailed) =>
                  /\ Len(reqs[i].responses) = 1
                  /\ reqs[i].responses[1].status \in 400..499

\* C16: the error shippoFetch throws for a non-success status carries the
\* upstream status code and the upstream body.
C16_FetchErrorCarriesStatusAndBody ==
    \A i \in Indices :
        reqs[i].caught.source \in {"Shippo error", "json"} =>
            /\ reqs[i].caught.status \in 400..599
            /\ reqs[i].caught.text # ""

\* C17: a rate inquiry issues only order and shipment retrievals; it creates
\* no payment session and buys no label.
C17_InquiryReadOnly ==
    \A i \in Indices :
        reqs[i].route = "rates" =>
            /\ \A k \in 1..Len(reqs[i].calls) :
                  reqs[i].calls[k].api \in {"shippo.order", "shippo.shipment"}
            /\ reqs[i].created = <<>>

C17_Witness ==
    \E i \in Indices :
        /\ reqs[i].route = "rates"
        /\ reqs[i].pc = "done"
        /\ reqs[i].responses[1].status = 200
        /\ Len(reqs[i].calls) = 2

\* C18: for a verified checkout.session.completed delivery no response is
\* sent while the label-purchase call is outstanding.
C18_AckAfterLabelSettles ==
    \A i \in Indices :
        (CompletedDelivery(reqs[i]) /\ reqs[i].pc = "awaitLabel") =>
            reqs[i].responses = <<>>

C18_Witness ==
    \E i, j \in Indices :
        /\ CompletedDelivery(reqs[i])
        /\ reqs[i].pc = "awaitLabel"
        /\ CompletedDelivery(reqs[j])
        /\ reqs[j].pc = "done"
        /\ reqs[j].responses = << Response(200, [received |-> TRUE]) >>

====
